---- MODULE Spec2Model ----
(***************************************************************************)
(* Model of src/Transcribe.py: the batch pipeline behind the "Select WAV   *)
(* Files to Process" button.  Every click starts a thread that runs        *)
(* process_files: copy the selected files into wav/, normalise every file  *)
(* of wav/ into amplified_wav/, pad every file of amplified_wav/ into      *)
(* temp_padded/, load the engine, transcribe every file of temp_padded/    *)
(* into transcription_with_timestamps/.  The four directories are shared   *)
(* by all runs and are never cleaned.                                      *)
(*                                                                         *)
(* Spec      the pipeline: threads, directories, pool tasks, messages.     *)
(* SpecLines the writing of one transcript (lines 69-73): the engine's     *)
(*           segments, the padding and the lines written.                  *)
(* SpecAudio what process_audio and add_silence do to one file's audio     *)
(*           (lines 25-58): channels, peak level, duration.                *)
(***************************************************************************)
EXTENDS Integers, Sequences, FiniteSets, TLC

\* ---------------------------------------------------------------- bounds
MaxRuns == 2      \* button clicks (threads running process_files)
MaxDirs == 2      \* user directories the dialog returns files from
MaxBases == 2     \* distinct base names ("1.wav", "2.wav", ...)
MaxSel == 2       \* files in one selection
MaxFaults == 1    \* environment failures (I/O, engine) in one behaviour
MaxSegs == 2      \* segments the engine returns for one file

\* ------------------------------------------------------ program constants
silence_duration == 30
target_max_amplitude == -30   \* -3.0 dBFS; levels are tenths of a decibel
headroom == 1                 \* normalize(audio): pydub's default, 0.1 dB

Runs == 1..MaxRuns
Dirs == 1..MaxDirs
Bases == 1..MaxBases

\* A user file is a path <<directory, base name>>; a file's content is
\* identified by the user file it was copied from.  None is "no such file".
Paths == Dirs \X Bases
None == <<>>
basename(p) == p[2]

\* The user files that do not decode as WAV (AudioSegment.from_wav raises).
CorruptPaths == {<<1, 1>>}
Corrupt(c) == c \in CorruptPaths

\* What filedialog.askopenfilenames can return: a tuple of distinct paths.
Selections == {s \in SUBSET Paths : Cardinality(s) <= MaxSel}

\* A future of concurrent.futures is "pending", "ok" (the task returned),
\* "failed" (the task printed its error and returned) or "cancelled";
\* "none" is a name no task was submitted for.
NoTasks == [b \in Bases |-> "none"]

VARIABLES
    wav,          \* wav/ : base name -> content (or None)
    amplified,    \* amplified_wav/
    padded,       \* temp_padded/
    transcripts,  \* transcription_with_timestamps/ : stem -> whose segments
    pc,           \* position of each run's thread in process_files
    files,        \* the selection of each run
    tocopy,       \* selected files the copy loop has not reached yet
    futures,      \* the run's `futures` dict: base name -> state of its task
    errors,       \* base names whose task printed "Error ..." in the run
    listing,      \* what is left of os.listdir(temp_padded) in the loop
    written,      \* stems whose transcript the run wrote
    msgs,         \* the message boxes the run showed
    faults,       \* environment failures so far
    silence,      \* transcribe_audio's silence_duration, in milliseconds
    result,       \* result["segments"] of the file being written
    lines,        \* the lines written to its transcript so far
    source,       \* the WAV file process_audio is given
    target,       \* process_audio's target_max_amplitude
    audio,        \* process_audio's local `audio`
    norm,         \* `audio` as normalize returned it (line 38)
    applied,      \* <<g>> when amplify_audio was called with g, else <<>>
    amplifiedFile, \* the file process_audio exported
    paddedFile,   \* the file add_silence exported
    apc           \* position in process_audio / add_silence

pipeline == <<wav, amplified, padded, transcripts, pc, files, tocopy, futures,
              errors, listing, written, msgs, faults>>
writer == <<silence, result, lines>>
sound == <<source, target, audio, norm, applied, amplifiedFile, paddedFile, apc>>
vars == <<pipeline, writer, sound>>

dirs == <<wav, amplified, padded, transcripts>>

\* An AudioSegment: its channel count, its peak level max_dBFS in tenths of
\* a decibel below full scale (NegInf for digital silence, as pydub gives
\* -inf), the peak of the average of its channels, and its parts in
\* milliseconds, each signal or silence.
NegInf == -100000
NoAudio == [channels |-> 0, peak |-> NegInf, mono |-> NegInf, parts |-> <<>>]

\* No file is inside process_audio or add_silence.
NoSound ==
    /\ source = NoAudio
    /\ target = target_max_amplitude
    /\ audio = NoAudio
    /\ norm = NoAudio
    /\ applied = <<>>
    /\ amplifiedFile = NoAudio
    /\ paddedFile = NoAudio
    /\ apc = "idle"

EmptyDir == [b \in Bases |-> None]

\* os.listdir(d) filtered by endswith(".wav"): the names present.
listdir(d) == {b \in Bases : d[b] # None}

\* The orders in which os.listdir can return a set of names.
Orders(S) ==
    {q \in [1..Cardinality(S) -> S] : \A i, j \in 1..Cardinality(S) : i # j => q[i] # q[j]}

\* Lines 113-124 and the GUI set-up: empty working directories, no thread.
InitPipeline ==
    /\ wav = EmptyDir
    /\ amplified = EmptyDir
    /\ padded = EmptyDir
    /\ transcripts = EmptyDir
    /\ pc = [r \in Runs |-> "idle"]
    /\ files = [r \in Runs |-> {}]
    /\ tocopy = [r \in Runs |-> {}]
    /\ futures = [r \in Runs |-> NoTasks]
    /\ errors = [r \in Runs |-> {}]
    /\ listing = [r \in Runs |-> <<>>]
    /\ written = [r \in Runs |-> {}]
    /\ msgs = [r \in Runs |-> {}]
    /\ faults = 0

Init ==
    /\ InitPipeline
    /\ silence = silence_duration * 1000
    /\ result = <<>>
    /\ lines = <<>>
    /\ NoSound

\* An environment failure may still happen.
MayFail == faults < MaxFaults

\* The button's command (lines 149-152): nothing but
\* Thread(target=process_files).start(); no check of a run in progress.
\* Clicks are numbered in the order they happen.
CanStart(r) == pc[r] = "idle" /\ \A q \in Runs : q < r => pc[q] # "idle"

\* A mutation of afterWarning: the return of line 84 is missing.
afterWarning_noreturn == "copy"

\* Where process_files is after the warning of line 83: the return of line 84.
afterWarning == "failed"

\* process_files, lines 81-84: the dialog returned nothing.
SelectNone(r) ==
    /\ CanStart(r)
    /\ pc' = [pc EXCEPT ![r] = afterWarning]
    /\ msgs' = [msgs EXCEPT ![r] = @ \cup {"warning"}]
    /\ UNCHANGED <<dirs, files, tocopy, futures, errors, listing, written, faults, writer, sound>>

\* process_files, line 81: the dialog returned a selection.
SelectFiles(r, sel) ==
    /\ CanStart(r)
    /\ sel # {}
    /\ pc' = [pc EXCEPT ![r] = "copy"]
    /\ files' = [files EXCEPT ![r] = sel]
    /\ tocopy' = [tocopy EXCEPT ![r] = sel]
    /\ UNCHANGED <<dirs, futures, errors, listing, written, msgs, faults, writer, sound>>

\* A mutation of CopyFile: the copy is given amplified_directory as its
\* destination.
CopyFile_wrongdir(r, p) ==
    /\ pc[r] = "copy"
    /\ p \in tocopy[r]
    /\ amplified' = [amplified EXCEPT ![basename(p)] = p]
    /\ tocopy' = [tocopy EXCEPT ![r] = @ \ {p}]
    /\ UNCHANGED <<wav, padded, transcripts, pc, files, futures, errors,
                   listing, written, msgs, faults, writer, sound>>

\* One iteration of the copy loop, lines 85-86: shutil.copy(file, wav_directory)
\* writes wav/<base name of file>.
CopyFile(r, p) ==
    /\ pc[r] = "copy"
    /\ p \in tocopy[r]
    /\ wav' = [wav EXCEPT ![basename(p)] = p]
    /\ tocopy' = [tocopy EXCEPT ![r] = @ \ {p}]
    /\ UNCHANGED <<amplified, padded, transcripts, pc, files, futures, errors,
                   listing, written, msgs, faults, writer, sound>>

\* shutil.copy raises (the source vanished, the source is the working copy
\* itself, ...): no handler encloses line 86, the thread ends with a
\* traceback on stderr and without a message box.
CopyRaises(r, p) ==
    /\ pc[r] = "copy"
    /\ p \in tocopy[r]
    /\ MayFail
    /\ faults' = faults + 1
    /\ pc' = [pc EXCEPT ![r] = "crashed"]
    /\ UNCHANGED <<dirs, files, tocopy, futures, errors, listing, written, msgs, writer, sound>>

\* ------------------------------------------------------ batch stages
\* A mutation of AllDone: the pool is left without waiting for its tasks.
AllDone_nowait(ts) == TRUE

\* Leaving `with ThreadPoolExecutor() as executor` (lines 88-92, 96-101):
\* every task of the batch has finished.
AllDone(ts) == \A b \in Bases : ts[b] # "pending"

\* executor.submit(op, file) for file in <listing of d>: one future per name.
submitAll(d) == [b \in Bases |-> IF b \in listdir(d) THEN "pending" ELSE "none"]

\* A mutation of taskFailed: a task's failure cancels the tasks not yet run.
taskFailed_cancels(ts, b) ==
    [x \in Bases |-> IF x = b THEN "failed"
                     ELSE IF ts[x] = "pending" THEN "cancelled" ELSE ts[x]]

\* A task that raised: its own except clause (lines 47-48, 57-58) prints the
\* error and the task returns; no other future is touched.
taskFailed(ts, b) == [ts EXCEPT ![b] = "failed"]

taskSucceeded(ts, b) == [ts EXCEPT ![b] = "ok"]

\* The path a pool task of a stage writes for the file named b: line 44,
\* os.path.join(output_path, os.path.basename(input_path)), and line 98,
\* os.path.join(temp_padded_directory, os.path.basename(file)).
outputPath(stage, b) == <<stage, b>>

\* process_audio (lines 33-48) raises inside its try when the input does
\* not decode or the environment fails the export.
processRaises(c, fault) == Corrupt(c) \/ fault

\* Lines 87-90: list wav/ and submit process_audio for every name in it.
SubmitNormalize(r) ==
    /\ pc[r] = "copy"
    /\ tocopy[r] = {}
    /\ futures' = [futures EXCEPT ![r] = submitAll(wav)]
    /\ pc' = [pc EXCEPT ![r] = "norm"]
    /\ UNCHANGED <<dirs, files, tocopy, errors, listing, written, msgs, faults, writer, sound>>

\* One pool task of the normalise batch: process_audio(wav/b, amplified_wav).
NormalizeTask(r, b, fault) ==
    /\ pc[r] = "norm"
    /\ futures[r][b] = "pending"
    /\ fault => MayFail
    /\ faults' = IF fault THEN faults + 1 ELSE faults
    /\ IF processRaises(wav[b], fault)
       THEN /\ futures' = [futures EXCEPT ![r] = taskFailed(@, b)]
            /\ errors' = [errors EXCEPT ![r] = @ \cup {b}]
            /\ UNCHANGED amplified
       ELSE /\ futures' = [futures EXCEPT ![r] = taskSucceeded(@, b)]
            /\ amplified' = [amplified EXCEPT ![b] = wav[b]]
            /\ UNCHANGED errors
    /\ UNCHANGED <<wav, padded, transcripts, pc, files, tocopy, listing, written, msgs, writer, sound>>

\* Lines 91-99: every future's result was awaited and the pool has drained;
\* list amplified_wav/ and submit add_silence for every name in it (the
\* name `futures` is rebound).
SubmitPad(r) ==
    /\ pc[r] = "norm"
    /\ AllDone(futures[r])
    /\ futures' = [futures EXCEPT ![r] = submitAll(amplified)]
    /\ pc' = [pc EXCEPT ![r] = "pad"]
    /\ UNCHANGED <<dirs, files, tocopy, errors, listing, written, msgs, faults, writer, sound>>

\* One pool task of the pad batch: add_silence(amplified_wav/b, temp_padded/b).
PadTask(r, b, fault) ==
    /\ pc[r] = "pad"
    /\ futures[r][b] = "pending"
    /\ fault => MayFail
    /\ faults' = IF fault THEN faults + 1 ELSE faults
    /\ IF fault
       THEN /\ futures' = [futures EXCEPT ![r] = taskFailed(@, b)]
            /\ errors' = [errors EXCEPT ![r] = @ \cup {b}]
            /\ UNCHANGED padded
       ELSE /\ futures' = [futures EXCEPT ![r] = taskSucceeded(@, b)]
            /\ padded' = [padded EXCEPT ![b] = amplified[b]]
            /\ UNCHANGED errors
    /\ UNCHANGED <<wav, amplified, transcripts, pc, files, tocopy, listing, written, msgs, writer, sound>>

\* ------------------------------------------------- engine and transcripts
\* A mutation of afterLoadError: the return of line 109 is missing.
afterLoadError_noreturn == "trans"

\* Where process_files is after the error box of line 108: the return of
\* line 109.
afterLoadError == "failed"

\* Lines 105-109: whisper.load_model raises.
LoadFails(r) ==
    /\ pc[r] = "pad"
    /\ AllDone(futures[r])
    /\ MayFail
    /\ faults' = faults + 1
    /\ pc' = [pc EXCEPT ![r] = afterLoadError]
    /\ msgs' = [msgs EXCEPT ![r] = @ \cup {"error"}]
    /\ UNCHANGED <<dirs, files, tocopy, futures, errors, listing, written, writer, sound>>

\* Lines 106, 110, 63-64: the model loads and transcribe_audio lists
\* temp_padded/ once, in whatever order os.listdir gives.
LoadAndList(r, order) ==
    /\ pc[r] = "pad"
    /\ AllDone(futures[r])
    /\ order \in Orders(listdir(padded))
    /\ listing' = [listing EXCEPT ![r] = order]
    /\ pc' = [pc EXCEPT ![r] = "trans"]
    /\ UNCHANGED <<dirs, files, tocopy, futures, errors, written, msgs, faults, writer, sound>>

\* One iteration of the loop of lines 64-74 in which the engine returns:
\* the transcript <stem>.txt is written from the segments of the padded file.
TranscribeFile(r) ==
    /\ pc[r] = "trans"
    /\ listing[r] # <<>>
    /\ LET b == Head(listing[r]) IN
        /\ transcripts' = [transcripts EXCEPT ![b] = padded[b]]
        /\ written' = [written EXCEPT ![r] = @ \cup {b}]
    /\ listing' = [listing EXCEPT ![r] = Tail(@)]
    /\ UNCHANGED <<wav, amplified, padded, pc, files, tocopy, futures, errors, msgs,
                   faults, writer, sound>>

\* An iteration in which model.transcribe raises: the one try of lines 62-77
\* encloses the whole loop, so the except clause prints the error and
\* transcribe_audio returns; process_files goes on to the success box of
\* line 111.  listing keeps the names the loop never completed, the raising
\* one first.
EngineRaises(r) ==
    /\ pc[r] = "trans"
    /\ listing[r] # <<>>
    /\ MayFail
    /\ faults' = faults + 1
    /\ pc' = [pc EXCEPT ![r] = "done"]
    /\ msgs' = [msgs EXCEPT ![r] = @ \cup {"success"}]
    /\ UNCHANGED <<dirs, files, tocopy, futures, errors, listing, written, writer, sound>>

\* Lines 75, 111: the loop ran to its end; the success box is shown.
Success(r) ==
    /\ pc[r] = "trans"
    /\ listing[r] = <<>>
    /\ pc' = [pc EXCEPT ![r] = "done"]
    /\ msgs' = [msgs EXCEPT ![r] = @ \cup {"success"}]
    /\ UNCHANGED <<dirs, files, tocopy, futures, errors, listing, written, faults, writer, sound>>

\* The base names a run passed to model.transcribe: those it wrote a
\* transcript for and the one the engine raised on.
engineCalls(r) ==
    written[r] \cup (IF pc[r] = "done" /\ listing[r] # <<>> THEN {Head(listing[r])} ELSE {})

\* A run has started and has reached neither Done nor Failed.
InFlight(r) == pc[r] \in {"copy", "norm", "pad", "trans"}

\* A click of the button: a thread starts and shows the dialog.
Start ==
    \/ \E r \in Runs : SelectNone(r)
    \/ \E r \in Runs, sel \in Selections : SelectFiles(r, sel)

\* A step of a thread that has started.
Work ==
    \/ \E r \in Runs, p \in Paths : CopyFile(r, p)
    \/ \E r \in Runs, p \in Paths : CopyRaises(r, p)
    \/ \E r \in Runs : SubmitNormalize(r)
    \/ \E r \in Runs, b \in Bases, fault \in BOOLEAN : NormalizeTask(r, b, fault)
    \/ \E r \in Runs : SubmitPad(r)
    \/ \E r \in Runs, b \in Bases, fault \in BOOLEAN : PadTask(r, b, fault)
    \/ \E r \in Runs : LoadFails(r)
    \/ \E r \in Runs, order \in Orders(listdir(padded)) : LoadAndList(r, order)
    \/ \E r \in Runs : TranscribeFile(r)
    \/ \E r \in Runs : EngineRaises(r)
    \/ \E r \in Runs : Success(r)

Next == Start \/ Work

Spec == Init /\ [][Next]_vars

\* The pipeline as the design assumes it is used: the button is clicked
\* only when no run is in flight, so runs follow one another.
NextSeq ==
    \/ (\A q \in Runs : ~InFlight(q)) /\ Start
    \/ Work

SpecSeq == Init /\ [][NextSeq]_vars

\* ------------------------------------------------- writing one transcript
\* Times are milliseconds.  The engine's times: before, on and after the
\* paddings, one of them off the 0.01 s grid.
SegTimes == {0, 10000, 12000, 30004, 35000, 40000}
Paddings == {0, 10000, silence_duration * 1000}

\* result["segments"]: sequences of n segments; text is the segment's own.
Segments(n) ==
    {[i \in 1..n |-> [start |-> q[i][1], end |-> q[i][2], text |-> i]] :
        q \in [1..n -> SegTimes \X SegTimes]}

\* A mutation of correct: the subtraction without the floor.
correct_nofloor(t, s) == t - s

\* Lines 71-72: max(segment[...] - silence_duration, 0).
correct(t, s) == IF t - s > 0 THEN t - s ELSE 0

\* "{:.2f}" of a time: <<whole seconds, two decimals>>, the nearest
\* hundredth (none of the times above is half-way between two hundredths,
\* where the result would depend on the binary representation).
fmt2(ms) == LET cs == (ms + 5) \div 10 IN <<cs \div 100, cs % 100>>

\* A mutation of formatLine: the two times are written in exchanged places.
formatLine_exchanged(seg, s) ==
    [start |-> fmt2(correct(seg.end, s)),
     end |-> fmt2(correct(seg.start, s)),
     text |-> seg.text]

\* Line 73: the line written for one segment.
formatLine(seg, s) ==
    [start |-> fmt2(correct(seg.start, s)),
     end |-> fmt2(correct(seg.end, s)),
     text |-> seg.text]

InitLines ==
    /\ InitPipeline
    /\ silence \in Paddings
    /\ result = <<>>
    /\ lines = <<>>
    /\ NoSound

\* Line 67: model.transcribe returns the segments of a file.
EngineReturns(segs) ==
    /\ result = <<>>
    /\ result' = segs
    /\ lines' = <<>>
    /\ UNCHANGED <<silence, pipeline, sound>>

\* One iteration of the loop of lines 70-73.
WriteLine ==
    /\ Len(lines) < Len(result)
    /\ lines' = Append(lines, formatLine(result[Len(lines) + 1], silence))
    /\ UNCHANGED <<silence, result, pipeline, sound>>

NextLines ==
    \/ result = <<>> /\ \E n \in 1..MaxSegs : \E segs \in Segments(n) : EngineReturns(segs)
    \/ WriteLine

SpecLines == InitLines /\ [][NextLines]_vars

\* ------------------------------------------------ the audio of one file
\* Peak levels of input files, durations in milliseconds, and the targets
\* process_audio is given: the program's, the level normalize leaves, and
\* full scale.
Levels == {NegInf, -200, -60, target_max_amplitude, -headroom, 0}
Durations == {1, 2500, 61000}
Targets == {target_max_amplitude, -headroom, 0}

\* The WAV files: a mono file is its own average; the average of two
\* channels peaks no higher than the louder channel, and is silent when
\* they cancel.
Inputs ==
    {[channels |-> c, peak |-> k, mono |-> m,
      parts |-> <<[kind |-> "signal", ms |-> d]>>] :
        c \in 1..2, k \in Levels, m \in Levels, d \in Durations}

WavFiles == {a \in Inputs : a.mono <= a.peak /\ (a.channels = 1 => a.mono = a.peak)}

Min0(x) == IF x < 0 THEN x ELSE 0

\* audio.max_dBFS
max_dBFS(a) == a.peak

\* audio.apply_gain(g): every sample is scaled, and clipped at full scale.
apply_gain(a, g) ==
    IF a.peak = NegInf THEN a
    ELSE [a EXCEPT !.peak = Min0(a.peak + g), !.mono = Min0(a.mono + g)]

\* Lines 25-27.
amplify_audio(a, amplification_factor) == apply_gain(a, amplification_factor)

\* Lines 29-31: set_channels(1) averages the channels.
stereo_to_mono(a) == [a EXCEPT !.channels = 1, !.peak = a.mono]

\* pydub.effects.normalize(seg, headroom=0.1): a silent segment is returned
\* as it is; any other is given the gain that puts its peak headroom below
\* full scale.
normalize(a) ==
    IF a.peak = NegInf THEN a ELSE apply_gain(a, (-headroom) - max_dBFS(a))

\* A mutation of amplification: the operands of line 39 are exchanged.
amplification_exchanged(t, a) == max_dBFS(a) - t

\* Line 39: amplification_factor = target_max_amplitude - audio.max_dBFS.
amplification(t, a) == t - max_dBFS(a)

\* A mutation of shouldAmplify: any non-zero factor is applied.
shouldAmplify_always(f) == f # 0

\* Line 40.
shouldAmplify(f) == f > 0

\* AudioSegment.silent(duration=d): d milliseconds of mono silence.
silent(d) ==
    [channels |-> 1, peak |-> NegInf, mono |-> NegInf,
     parts |-> <<[kind |-> "silence", ms |-> d]>>]

\* a + b of two AudioSegments: b appended to a, no crossfade.
concat(a, b) ==
    [channels |-> IF a.channels > b.channels THEN a.channels ELSE b.channels,
     peak |-> IF a.peak > b.peak THEN a.peak ELSE b.peak,
     mono |-> IF a.mono > b.mono THEN a.mono ELSE b.mono,
     parts |-> a.parts \o b.parts]

\* A mutation of silenceMs: the duration is passed in seconds.
silenceMs_seconds(s) == s

\* Line 54: duration=silence_duration * 1000.
silenceMs(s) == s * 1000

\* Lines 54-55 of add_silence: silence + audio + silence.
padded_audio(a, s) == concat(concat(silent(silenceMs(s)), a), silent(silenceMs(s)))

InitAudio ==
    /\ InitPipeline
    /\ silence \in Paddings
    /\ result = <<>>
    /\ lines = <<>>
    /\ source \in WavFiles
    /\ target \in Targets
    /\ audio = NoAudio
    /\ norm = NoAudio
    /\ applied = <<>>
    /\ amplifiedFile = NoAudio
    /\ paddedFile = NoAudio
    /\ apc = "start"

\* Line 36: AudioSegment.from_wav(input_path).
FromWav ==
    /\ apc = "start"
    /\ audio' = source
    /\ apc' = "loaded"
    /\ UNCHANGED <<source, target, norm, applied, amplifiedFile, paddedFile, pipeline, writer>>

\* Line 37.
ToMono ==
    /\ apc = "loaded"
    /\ audio' = stereo_to_mono(audio)
    /\ apc' = "mono"
    /\ UNCHANGED <<source, target, norm, applied, amplifiedFile, paddedFile, pipeline, writer>>

\* Line 38.
Normalize ==
    /\ apc = "mono"
    /\ audio' = normalize(audio)
    /\ norm' = audio'
    /\ apc' = "normalized"
    /\ UNCHANGED <<source, target, applied, amplifiedFile, paddedFile, pipeline, writer>>

\* Lines 39-41.  A silent segment has max_dBFS = -inf and so an infinite
\* factor; scaling its zero samples by it gives no number, which the C
\* audioop stores as silence and the pure-Python audioop refuses with an
\* exception that the except clause of line 47 prints.
Amplify(raises) ==
    /\ apc = "normalized"
    /\ LET amplification_factor == amplification(target, audio) IN
        IF shouldAmplify(amplification_factor)
        THEN /\ applied' = <<amplification_factor>>
             /\ IF raises
                THEN /\ max_dBFS(audio) = NegInf
                     /\ apc' = "error"
                     /\ UNCHANGED audio
                ELSE /\ audio' = amplify_audio(audio, amplification_factor)
                     /\ apc' = "ready"
        ELSE /\ ~raises
             /\ apc' = "ready"
             /\ UNCHANGED <<audio, applied>>
    /\ UNCHANGED <<source, target, norm, amplifiedFile, paddedFile, pipeline, writer>>

\* Lines 43-45: audio.export(output_file, format="wav").
Export ==
    /\ apc = "ready"
    /\ amplifiedFile' = audio
    /\ apc' = "exported"
    /\ UNCHANGED <<source, target, audio, norm, applied, paddedFile, pipeline, writer>>

\* Lines 53-56: add_silence on the exported file, with the padding in
\* seconds.
AddSilence ==
    /\ apc = "exported"
    /\ paddedFile' = padded_audio(amplifiedFile, silence \div 1000)
    /\ apc' = "padded"
    /\ UNCHANGED <<source, target, audio, norm, applied, amplifiedFile, pipeline, writer>>

NextAudio ==
    \/ FromWav
    \/ ToMono
    \/ Normalize
    \/ \E raises \in BOOLEAN : Amplify(raises)
    \/ Export
    \/ AddSilence

SpecAudio == InitAudio /\ [][NextAudio]_vars

\* ------------------------------------------------------------------ C3
\* The time, in milliseconds, that a written <<seconds, decimals>> denotes.
Written(w) == (w[1] * 100 + w[2]) * 10

Max0(x) == IF x > 0 THEN x ELSE 0

\* t is written as w: w is the two-decimal number nearest to t, hence t
\* itself when t has two decimals.
WrittenAs(t, w) ==
    /\ w[2] \in 0..99
    /\ Written(w) - t \in -5..5
    /\ t % 10 = 0 => Written(w) = t

\* C3: every line written carries max(start - silence, 0) and
\* max(end - silence, 0) of its segment, as two-decimal seconds; the start
\* is 0 whenever the padding exceeds the segment's start; (35, 40) with
\* padding 30 is written (5.00, 10.00) and (10, 12) is written (0.00, 0.00).
C3_TimestampCorrection ==
    \A i \in 1..Len(lines) :
        LET seg == result[i]
            ln == lines[i]
        IN  /\ WrittenAs(Max0(seg.start - silence), ln.start)
            /\ WrittenAs(Max0(seg.end - silence), ln.end)
            /\ silence > seg.start => ln.start = <<0, 0>>
            /\ (silence = 30000 /\ seg.start = 35000 /\ seg.end = 40000)
                  => (ln.start = <<5, 0>> /\ ln.end = <<10, 0>>)
            /\ (silence = 30000 /\ seg.start = 10000 /\ seg.end = 12000)
                  => (ln.start = <<0, 0>> /\ ln.end = <<0, 0>>)

\* Both of the spec's examples written in one transcript.
C3_Witness ==
    /\ silence = 30000
    /\ Len(lines) = 2
    /\ result[1].start = 10000 /\ result[1].end = 12000
    /\ result[2].start = 35000 /\ result[2].end = 40000
    /\ lines[1].start = <<0, 0>> /\ lines[2].end = <<10, 0>>

\* ------------------------------------------------------------------ C1
\* C1: when the engine fails on one padded file, every other file of the
\* listing still gets its transcript.  (At "done", listing holds the names
\* the loop never completed, the failing one first.)
C1_TranscriptionFailureContained ==
    \A r \in Runs :
        pc[r] = "done" =>
            \A i \in 1..Len(listing[r]) : i > 1 => listing[r][i] \in written[r]

\* ------------------------------------------------------------------ C2
Submitted(ts) == {b \in Bases : ts[b] # "none"}
Failures(ts) == {b \in Bases : ts[b] = "failed"}
Successes(ts) == {b \in Bases : ts[b] = "ok"}

\* C2: in the normalise and pad batches no task is cancelled or skipped
\* because another failed; once the batch has drained every submitted task
\* has run and has exactly one result, a failure (printed) or a success
\* (its output file exists, and is not the product of a corrupt input), so
\* one failing file among N gives one failure and N-1 successes; a run
\* leaves a batch only when it has drained, and never by an exception
\* (a run that crashed never submitted a batch).
C2_BatchIsolation ==
    \A r \in Runs :
        LET ts == futures[r] IN
        /\ \A b \in Bases : ts[b] # "cancelled"
        /\ pc[r] \in {"trans", "done", "failed"} => AllDone(ts)
        /\ pc[r] = "crashed" => ts = NoTasks
        /\ AllDone(ts) =>
              /\ Submitted(ts) = Failures(ts) \cup Successes(ts)
              /\ Cardinality(Failures(ts)) = 1 =>
                    Cardinality(Successes(ts)) = Cardinality(Submitted(ts)) - 1
        /\ Failures(ts) \subseteq errors[r]
        /\ \A b \in Successes(ts) :
              /\ pc[r] = "norm" => amplified[b] # None /\ ~Corrupt(amplified[b])
              /\ pc[r] # "norm" => padded[b] # None

\* A drained normalise batch of two files, the corrupt one failed and the
\* other succeeded, and a drained pad batch of two files, one failed and
\* the other succeeded.
C2_Witness ==
    /\ \E r \in Runs :
        /\ pc[r] = "norm"
        /\ AllDone(futures[r])
        /\ Cardinality(Submitted(futures[r])) = 2
        /\ \E b \in Bases :
              /\ Failures(futures[r]) = {b}
              /\ Corrupt(wav[b])
              /\ Cardinality(Successes(futures[r])) = 1
    /\ \E r \in Runs :
        /\ pc[r] = "pad"
        /\ AllDone(futures[r])
        /\ Cardinality(Submitted(futures[r])) = 2
        /\ Cardinality(Failures(futures[r])) = 1
        /\ Cardinality(Successes(futures[r])) = 1

\* ------------------------------------------------------------------ C4
\* C4: a file whose normalise or pad task failed in a run is not padded
\* after the failed normalise, is not passed to the engine and gets no
\* transcript in that run.
C4_FailedFileDropped ==
    \A r \in Runs : \A b \in errors[r] :
        /\ pc[r] = "pad" => futures[r][b] \in {"none", "failed"}
        /\ b \notin engineCalls(r)
        /\ b \notin written[r]

\* ------------------------------------------------------------------ C5
\* A run that completed without any per-file error over valid files.
CleanRun(r) ==
    /\ pc[r] = "done"
    /\ listing[r] = <<>>
    /\ errors[r] = {}
    /\ files[r] \cap CorruptPaths = {}

\* No run was started after run r: the state is that after run r.
Latest(r) == \A q \in Runs : q > r => pc[q] = "idle"

DistinctNames(S) == \A p, q \in S : p # q => basename(p) # basename(q)

\* C5: after a full run over N valid selected files the transcript
\* directory holds exactly N files, one for each selected file.  Stated for
\* selections whose base names differ, where no working copy replaces
\* another (C6), and for behaviours without any environment failure.
C5_ExactlyNTranscripts ==
    \A r \in Runs :
        (CleanRun(r) /\ Latest(r) /\ DistinctNames(files[r]) /\ faults = 0) =>
            /\ Cardinality(listdir(transcripts)) = Cardinality(files[r])
            /\ listdir(transcripts) = {basename(p) : p \in files[r]}

\* ------------------------------------------------------------------ C6
\* C6: two distinct selected inputs of a run that succeeds get two distinct
\* transcripts, each named by its input and holding that input's segments.
C6_OneTranscriptPerInput ==
    \A r \in Runs :
        (CleanRun(r) /\ Latest(r)) =>
            \A p, q \in files[r] :
                p # q =>
                    /\ basename(p) # basename(q)
                    /\ {basename(p), basename(q)} \subseteq written[r]
                    /\ transcripts[basename(p)] = p
                    /\ transcripts[basename(q)] = q

\* ------------------------------------------------------------------ C7
\* C7: a run whose engine load failed is Failed with the error box shown,
\* never invoked the engine, wrote no transcript and shows no success box.
C7_LoadFailureStops ==
    \A r \in Runs :
        "error" \in msgs[r] =>
            /\ pc[r] = "failed"
            /\ engineCalls(r) = {}
            /\ written[r] = {}
            /\ listing[r] = <<>>
            /\ "success" \notin msgs[r]

\* A run failed to load the engine although padded files were waiting.
C7_Witness ==
    \E r \in Runs :
        /\ "error" \in msgs[r]
        /\ pc[r] = "failed"
        /\ \E b \in Bases : futures[r][b] = "ok" /\ padded[b] # None

\* ------------------------------------------------------------------ C8
\* C8: an empty selection shows the warning and nothing else happens in
\* that run: it is Failed, copied nothing, submitted no task, did not reach
\* the engine, and the step that shows the warning leaves the four
\* directories as they were.
C8_EmptySelectionStops ==
    /\ [](\A r \in Runs :
            "warning" \in msgs[r] =>
                /\ pc[r] = "failed"
                /\ msgs[r] = {"warning"}
                /\ files[r] = {} /\ tocopy[r] = {}
                /\ futures[r] = NoTasks /\ errors[r] = {}
                /\ listing[r] = <<>> /\ written[r] = {})
    /\ [][\A r \in Runs :
            ("warning" \notin msgs[r] /\ "warning" \in msgs'[r]) => dirs' = dirs]_vars

\* An empty selection made when the working directories hold files of an
\* earlier run.
C8_Witness ==
    \E r \in Runs :
        /\ "warning" \in msgs[r]
        /\ listdir(wav) # {}
        /\ listdir(transcripts) # {}

\* ------------------------------------------------------------------ C9
\* C9: a run ended by an exception that no per-file handler contains is
\* Failed and has shown an error message.
C9_UnhandledIsReported ==
    \A r \in Runs :
        pc[r] = "crashed" => "error" \in msgs[r]

\* ------------------------------------------------------------------ C10
\* C10: at most one run is in flight.
C10_AtMostOneRun ==
    Cardinality({r \in Runs : InFlight(r)}) <= 1

\* ------------------------------------------------------------------ C11
\* The steps of the four stages, told by what they do to a run's state.
CopyStep == \E r \in Runs : pc[r] = "copy" /\ tocopy'[r] # tocopy[r]
NormalizeStep ==
    \E r \in Runs, b \in Bases :
        pc[r] = "norm" /\ futures[r][b] = "pending" /\ futures'[r][b] # "pending"
PadStep ==
    \E r \in Runs, b \in Bases :
        pc[r] = "pad" /\ futures[r][b] = "pending" /\ futures'[r][b] # "pending"
TranscribeStep == \E r \in Runs : pc[r] = "trans" /\ listing'[r] # listing[r]

\* C11: wav/ changes only in a copy step, amplified_wav/ only in a
\* normalise task, temp_padded/ only in a pad task and the transcripts only
\* in a transcribe step; and a step of one stage leaves the directories of
\* the three other stages as they were.
C11_DirectorySeparation ==
    [][/\ wav' # wav => CopyStep
       /\ amplified' # amplified => NormalizeStep
       /\ padded' # padded => PadStep
       /\ transcripts' # transcripts => TranscribeStep
       /\ CopyStep => UNCHANGED <<amplified, padded, transcripts>>
       /\ NormalizeStep => UNCHANGED <<wav, padded, transcripts>>
       /\ PadStep => UNCHANGED <<wav, amplified, transcripts>>
       /\ TranscribeStep => UNCHANGED <<wav, amplified, padded>>]_vars

\* Every stage has written its directory, and a second run is at work on
\* directories the first one filled.
C11_Witness ==
    /\ listdir(wav) # {}
    /\ listdir(amplified) # {}
    /\ listdir(padded) # {}
    /\ listdir(transcripts) # {}
    /\ \E r \in Runs : pc[r] = "norm" /\ \E b \in Bases : futures[r][b] = "ok"

\* ------------------------------------------------------------------ C12
Larger(x, y) == IF x > y THEN x ELSE y

\* process_audio has exported its file.
Exported == apc \in {"exported", "padded"}

\* C12 as stated: the peak of the emitted file is at most the target, and
\* a normalized peak at or above the target is emitted unchanged.
C12_PeakAtMostTarget ==
    Exported =>
        /\ amplifiedFile.peak <= target
        /\ norm.peak >= target => amplifiedFile = norm

\* C12, amended: the peak of the emitted file is at most the larger of the
\* target and the normalized peak, and is above the target exactly when the
\* normalized peak is; a normalized signal whose peak is at or above the
\* target is emitted unchanged.
C12_PeakAtMostLarger ==
    Exported =>
        /\ amplifiedFile.peak <= Larger(target, norm.peak)
        /\ amplifiedFile.peak > target <=> norm.peak > target
        /\ norm.peak >= target => amplifiedFile = norm

\* A quiet file processed with the program's target: normalize has raised
\* it above the target and it is emitted there.
C12_Witness ==
    /\ Exported
    /\ target = target_max_amplitude
    /\ source.peak = -200
    /\ norm.peak > target
    /\ amplifiedFile.peak = norm.peak

\* ------------------------------------------------------------------ C13
\* C13: with gain = target - peak of the normalized signal, amplify_audio
\* is called with exactly that gain when gain > 0, which raises the peak
\* by it, and is not called when gain <= 0, the signal staying as
\* normalize returned it; the peak is never lowered.
C13_GainRule ==
    apc \in {"ready", "exported", "padded"} =>
        LET gain == target - norm.peak IN
        /\ gain > 0 => /\ applied = <<gain>>
                       /\ norm.peak # NegInf => audio.peak = norm.peak + gain
        /\ gain <= 0 => applied = <<>> /\ audio = norm
        /\ audio.peak >= norm.peak

\* A signal normalized below a full-scale target was amplified up to it.
C13_Witness ==
    /\ Exported
    /\ norm.peak # NegInf
    /\ applied = <<target - norm.peak>>
    /\ amplifiedFile.peak > norm.peak

\* ------------------------------------------------------------------ C14
\* len(audio): the milliseconds of a sequence of parts.
RECURSIVE PartsMs(_)
PartsMs(ps) == IF ps = <<>> THEN 0 ELSE Head(ps).ms + PartsMs(Tail(ps))

\* C14: the padded file is s seconds of silence, the asset, s seconds of
\* silence, and lasts duration(asset) + 2 * s * 1000 milliseconds.
C14_PaddedDuration ==
    apc = "padded" =>
        LET s == silence \div 1000
            sil == [kind |-> "silence", ms |-> s * 1000]
        IN /\ paddedFile.parts = <<sil>> \o amplifiedFile.parts \o <<sil>>
           /\ PartsMs(paddedFile.parts) = PartsMs(amplifiedFile.parts) + 2 * s * 1000

\* A 61 s asset padded with the program's 30 s lasts 121 s.
C14_Witness ==
    /\ apc = "padded"
    /\ silence = silence_duration * 1000
    /\ PartsMs(amplifiedFile.parts) = 61000
    /\ PartsMs(paddedFile.parts) = 121000

\* ------------------------------------------------------------------ C15
Pending(ts) == {b \in Bases : ts[b] = "pending"}

\* C15: within a run, every normalise task is submitted, none finished,
\* when the run starts to await them; the run passes from normalising to
\* padding, and lists the files to pad, only when no normalise task is
\* pending; it loads the engine only when no pad task is pending, and
\* while it transcribes none is.
C15_StageBarrier ==
    /\ [](\A r \in Runs : pc[r] = "trans" => Pending(futures[r]) = {})
    /\ [][\A r \in Runs :
            /\ pc[r] = "copy" /\ pc'[r] # "copy" /\ pc'[r] # "crashed" =>
                    /\ pc'[r] = "norm"
                    /\ Pending(futures'[r]) = listdir(wav)
                    /\ Submitted(futures'[r]) = listdir(wav)
            /\ pc[r] = "norm" /\ pc'[r] # "norm" =>
                    /\ Pending(futures[r]) = {}
                    /\ pc'[r] = "pad"
                    /\ Pending(futures'[r]) = listdir(amplified)
            /\ pc[r] \notin {"copy", "norm", "pad"} => futures'[r] = futures[r]
            /\ pc[r] = "pad" /\ pc'[r] # "pad" => Pending(futures[r]) = {}
            /\ written'[r] # written[r] => pc[r] = "trans"]_vars

\* A run transcribes after two normalise tasks and two pad tasks.
C15_Witness ==
    \E r \in Runs :
        /\ pc[r] = "trans"
        /\ written[r] # {}
        /\ \A b \in Bases : futures[r][b] = "ok"

\* ------------------------------------------------------------------ C16
\* The pool tasks submitted and not finished: queued or running in the pool
\* of their run.
PoolTasks == {t \in Runs \X Bases : pc[t[1]] \in {"norm", "pad"} /\ futures[t[1]][t[2]] = "pending"}

\* C16: two different unfinished pool tasks of the same stage never have
\* the same output path.
C16_NoSharedOutputPath ==
    \A t, u \in PoolTasks :
        t # u /\ pc[t[1]] = pc[u[1]] =>
            outputPath(pc[t[1]], t[2]) # outputPath(pc[u[1]], u[2])

\* ------------------------------------------------------------------ C17
\* The run is inside the loop of lines 64-74, at the file Head(listing).
Transcribing(r) == pc[r] = "trans" /\ listing[r] # <<>>

\* C17: at most one run is at an engine call, and the files a run has
\* still to pass to the engine have no transcript written by it.
C17_OneEngineCall ==
    /\ Cardinality({r \in Runs : Transcribing(r)}) <= 1
    /\ \A r \in Runs :
          pc[r] = "trans" =>
              \A i \in 1..Len(listing[r]) : listing[r][i] \notin written[r]

\* ------------------------------------------------------------------ C18
\* A step of the thread of run r.
RunStep(r) ==
    \/ \E p \in Paths : CopyFile(r, p) \/ CopyRaises(r, p)
    \/ SubmitNormalize(r) \/ SubmitPad(r) \/ LoadFails(r)
    \/ \E b \in Bases, fault \in BOOLEAN : NormalizeTask(r, b, fault) \/ PadTask(r, b, fault)
    \/ \E order \in Orders(listdir(padded)) : LoadAndList(r, order)
    \/ TranscribeFile(r) \/ EngineRaises(r) \/ Success(r)

\* The run is Done with the success box shown, or Failed with a warning or
\* an error shown.
Reported(r) ==
    \/ pc[r] = "done" /\ "success" \in msgs[r]
    \/ pc[r] = "failed" /\ msgs[r] \cap {"warning", "error"} # {}

\* C18: a run that has started and has no step left to take has reported
\* Done or Failed.
C18_NoSilentStop ==
    \A r \in Runs :
        pc[r] # "idle" /\ ~ENABLED RunStep(r) => Reported(r)

\* ------------------------------------------------------------------ C19
\* C19: for a segment with start <= end and a padding >= 0 the written
\* start and end satisfy 0 <= start <= end; and the i-th line written is
\* that of the i-th segment the engine returned.
C19_BoundsOrdered ==
    /\ Len(lines) <= Len(result)
    /\ \A i \in 1..Len(lines) :
          LET seg == result[i]
              ln == lines[i]
          IN /\ ln.text = seg.text
             /\ seg.start <= seg.end /\ silence >= 0 =>
                    /\ 0 <= Written(ln.start)
                    /\ Written(ln.start) <= Written(ln.end)

\* Two segments written with the program's padding: the first starts
\* inside the padding and ends after it, the second lies after it.
C19_Witness ==
    /\ silence = silence_duration * 1000
    /\ Len(lines) = 2
    /\ result[1].start = 10000 /\ result[1].end = 35000
    /\ result[2].start = 35000 /\ result[2].end = 40000
    /\ Written(lines[1].start) = 0 /\ Written(lines[1].end) = 5000
    /\ lines[2].text = 2
====
